---------------------------- MODULE Spec2Model ----------------------------
(***************************************************************************)
(* Seat-to-camera geometry of gt-v2: the planar primitives of              *)
(* app/utils/geometry.py, the venue lookups of app/models/venue.py, the    *)
(* CoordinateMapper of app/services/coordinate_mapper.py, the look-at      *)
(* factory of app/models/camera.py and the render cache of                 *)
(* app/services/render_client.py.                                          *)
(*                                                                         *)
(* Numbers.  A Python float is modelled by an exact rational <<n, d>> in   *)
(* lowest terms with d > 0.  IEEE-754 keeps a sign on zero and the code    *)
(* reaches math.atan2 with a negated zero, so the negative zero is a value *)
(* of its own, <<0, -1>>.  Rounding of the binary format is not modelled.  *)
(*                                                                         *)
(* Angles.  An angle is modelled by the direction it denotes: the pair     *)
(* (s, c) of coprime integers with s : c = sgn(sin)*sin^2 : sgn(cos)*cos^2 *)
(* together with its unit.  The signed squares keep atan2 exact when one   *)
(* of its arguments is a square root.                                      *)
(***************************************************************************)
EXTENDS Integers, Sequences, FiniteSets, TLC

(***************************************************************************)
(* Rational arithmetic with a signed zero                                  *)
(***************************************************************************)
Zero == <<0, 1>>
NegZero == <<0, -1>>

AbsI(i) == IF i < 0 THEN -i ELSE i

RECURSIVE GCD(_, _)
GCD(a, b) == IF b = 0 THEN a ELSE GCD(b, a % b)

\* n/d in lowest terms, for d > 0
Norm(n, d) ==
    IF n = 0 THEN Zero
    ELSE LET g == GCD(AbsI(n), d) IN <<n \div g, d \div g>>

Q(n, d) == Norm(n, d)
I(n) == <<n, 1>>

IsZero(a) == a[1] = 0
IsNeg(a) == a = NegZero \/ a[1] < 0
\* the value without the sign of a zero
V(a) == IF a = NegZero THEN Zero ELSE a

\* Python's unary minus: -(0.0) is -0.0
Neg(a) ==
    IF a = Zero THEN NegZero
    ELSE IF a = NegZero THEN Zero
    ELSE <<-a[1], a[2]>>

\* a + b; a zero sum is -0.0 only when both operands are -0.0
Add(a, b) ==
    LET x == V(a)
        y == V(b)
        g == GCD(x[2], y[2])
        r == Norm(x[1] * (y[2] \div g) + y[1] * (x[2] \div g), x[2] * (y[2] \div g))
    IN  IF r[1] = 0
        THEN (IF a = NegZero /\ b = NegZero THEN NegZero ELSE Zero)
        ELSE r

Sub(a, b) == Add(a, Neg(b))

\* a * b; a zero product carries the product of the signs
Mul(a, b) ==
    LET x == V(a)
        y == V(b)
    IN  IF x[1] = 0 \/ y[1] = 0
        THEN (IF IsNeg(a) # IsNeg(b) THEN NegZero ELSE Zero)
        ELSE LET g1 == GCD(AbsI(x[1]), y[2])
                 g2 == GCD(AbsI(y[1]), x[2])
             IN  <<(x[1] \div g1) * (y[1] \div g2), (x[2] \div g2) * (y[2] \div g1)>>

\* a / b for b # 0 (the callers test the divisor: Python raises on zero)
Div(a, b) ==
    LET y == V(b)
        inv == IF y[1] < 0 THEN <<-y[2], -y[1]>> ELSE <<y[2], y[1]>>
    IN  Mul(a, IF b = NegZero THEN NegZero ELSE inv)

Lt(a, b) == V(a)[1] * V(b)[2] < V(b)[1] * V(a)[2]
Le(a, b) == V(a)[1] * V(b)[2] <= V(b)[1] * V(a)[2]
Gt(a, b) == Lt(b, a)
Ge(a, b) == Le(b, a)
\* Python's ==: the two zeros are equal
Eq(a, b) == V(a) = V(b)

\* Python's min(a, b) and max(a, b): the first argument wins a tie
Min(a, b) == IF Lt(b, a) THEN b ELSE a
Max(a, b) == IF Gt(b, a) THEN b ELSE a

Sq(a) == Mul(a, a)
AbsQ(a) == IF IsNeg(a) THEN Neg(a) ELSE a
\* sgn(a) * a^2
Ssq(a) == Mul(a, AbsQ(a))

RECURSIVE ISqrtIter(_, _, _)
\* the largest r in lo..hi with r*r <= n
ISqrtIter(n, lo, hi) ==
    IF lo >= hi THEN lo
    ELSE LET mid == (lo + hi + 1) \div 2
         IN  IF mid * mid <= n THEN ISqrtIter(n, mid, hi) ELSE ISqrtIter(n, lo, mid - 1)

ISqrt(n) == ISqrtIter(n, 0, IF n < 46340 THEN n ELSE 46340)

\* math.sqrt for a >= 0: sqrt(n/d) = sqrt(n*d)/d, exact when n/d is the
\* square of a rational and rounded down to a multiple of 1/d otherwise
Sqrt(a) ==
    IF IsZero(a) THEN a
    ELSE Norm(ISqrt(a[1] * a[2]), a[2])

IsSquare(a) == LET r == Sqrt(V(a)) IN Eq(Sq(r), a)


(***************************************************************************)
(* Angles                                                                  *)
(***************************************************************************)
\* the direction (0, -1) is that of pi and of -pi, which math.atan2 returns
\* for a negative zero over a negative number: neg tells the two apart
Angle(u, s, c) == [unit |-> u, s |-> s, c |-> c, neg |-> FALSE]
MinusPi == [unit |-> "rad", s |-> 0, c |-> -1, neg |-> TRUE]

\* the coprime integer pair proportional to two rationals that are not both zero
Dir(ys, xs) ==
    LET y == V(ys)
        x == V(xs)
        g == GCD(y[2], x[2])
        a == y[1] * (x[2] \div g)
        b == x[1] * (y[2] \div g)
        h == GCD(AbsI(a), AbsI(b))
    IN  <<a \div h, b \div h>>

\* math.atan2(y, x), in radians.  For a zero y the sign of the zero decides:
\* atan2(0.0, x) is pi and atan2(-0.0, x) is -pi for x < 0 and for x = -0.0,
\* and both are a zero for x > 0 and for x = 0.0.
Atan2(y, x) ==
    IF IsZero(y) /\ IsNeg(x)
    THEN (IF y = NegZero THEN MinusPi ELSE Angle("rad", 0, -1))
    ELSE IF IsZero(y) /\ IsZero(x) THEN Angle("rad", 0, 1)
    ELSE LET d == Dir(Ssq(y), Ssq(x)) IN Angle("rad", d[1], d[2])

\* math.atan2(y, math.sqrt(x2)) for x2 > 0: the root is kept as its square
Atan2Root(y, x2) == LET d == Dir(Ssq(y), x2) IN Angle("rad", d[1], d[2])

\* math.degrees and math.radians
Degrees(a) == [a EXCEPT !.unit = "deg"]
Radians(a) == [a EXCEPT !.unit = "rad"]

\* math.pi/2 and the float 0 as angles
HalfPi == Angle("rad", 1, 0)
ZeroRad == Angle("rad", 0, 1)
\* math.pi/2 - a
HalfPiMinus(a) == Angle("rad", a.c, a.s)

\* math.sin and math.cos of an angle in radians
Sin(a) ==
    LET r == Sqrt(Q(AbsI(a.s), AbsI(a.s) + AbsI(a.c)))
    IN  IF a.s < 0 THEN Neg(r) ELSE r
Cos(a) ==
    LET r == Sqrt(Q(AbsI(a.c), AbsI(a.s) + AbsI(a.c)))
    IN  IF a.c < 0 THEN Neg(r) ELSE r

(***************************************************************************)
(* app/utils/geometry.py                                                   *)
(***************************************************************************)
\* the result of a call: a value, or an exception raised
Ok(v) == [raised |-> FALSE, value |-> v]
Raised == [raised |-> TRUE, value |-> FALSE]

\* mutant of Straddles: the straddle test left out
StraddlesAlways(yi, yj, y) == TRUE

\* mutant of Straddles: >= for the first end of the edge
StraddlesInclusive(yi, yj, y) == Ge(yi, y) # Gt(yj, y)

\* mutant of Straddles: >= for both ends of the edge
StraddlesUpper(yi, yj, y) == Ge(yi, y) # Ge(yj, y)

\* (yi > y) != (yj > y): the edge's y-span straddles the ray
Straddles(yi, yj, y) == Gt(yi, y) # Gt(yj, y)

RECURSIVE pip_loop(_, _, _, _, _, _)
pip_loop(x, y, polygon, i, j, inside) ==
    IF i > Len(polygon) THEN Ok(inside)
    ELSE LET xi == polygon[i][1]
             yi == polygon[i][2]
             xj == polygon[j][1]
             yj == polygon[j][2]
         IN  IF ~Straddles(yi, yj, y) THEN pip_loop(x, y, polygon, i + 1, i, inside)
             ELSE IF IsZero(Sub(yj, yi)) THEN Raised
             ELSE LET cross == Add(Div(Mul(Sub(xj, xi), Sub(y, yi)), Sub(yj, yi)), xi)
                  IN  pip_loop(x, y, polygon, i + 1, i,
                               IF Lt(x, cross) THEN ~inside ELSE inside)

\* mutant of point_in_polygon: the edge from the last vertex to the first is
\* left out
point_in_polygon_open(x, y, polygon) ==
    IF Len(polygon) = 0 THEN Ok(FALSE)
    ELSE pip_loop(x, y, polygon, 2, 1, FALSE)

\* point_in_polygon(x, y, polygon): even-odd ray casting
point_in_polygon(x, y, polygon) ==
    IF Len(polygon) = 0 THEN Ok(FALSE)
    ELSE pip_loop(x, y, polygon, 1, Len(polygon), FALSE)

RECURSIVE SumCoord(_, _, _)
SumCoord(polygon, k, i) ==
    IF i > Len(polygon) THEN Zero
    ELSE Add(polygon[i][k], SumCoord(polygon, k, i + 1))

\* mutant of polygon_centroid: the sum of the vertices, not divided by n
polygon_vertex_sum(polygon) ==
    <<SumCoord(polygon, 1, 1), SumCoord(polygon, 2, 1)>>

RECURSIVE MinCoord(_, _, _)
MinCoord(polygon, k, i) ==
    IF i = Len(polygon) THEN polygon[i][k]
    ELSE Min(polygon[i][k], MinCoord(polygon, k, i + 1))
RECURSIVE MaxCoord(_, _, _)
MaxCoord(polygon, k, i) ==
    IF i = Len(polygon) THEN polygon[i][k]
    ELSE Max(polygon[i][k], MaxCoord(polygon, k, i + 1))

\* mutant of polygon_centroid: the centre of the bounding box
polygon_bbox_centre(polygon) ==
    IF Len(polygon) = 0 THEN <<Zero, Zero>>
    ELSE <<Div(Add(MinCoord(polygon, 1, 1), MaxCoord(polygon, 1, 1)), I(2)),
           Div(Add(MinCoord(polygon, 2, 1), MaxCoord(polygon, 2, 1)), I(2))>>

\* polygon_centroid(polygon): the mean of the vertices, (0, 0) when empty
polygon_centroid(polygon) ==
    LET n == Len(polygon)
    IN  IF n = 0 THEN <<Zero, Zero>>
        ELSE <<Div(SumCoord(polygon, 1, 1), I(n)), Div(SumCoord(polygon, 2, 1), I(n))>>

\* distance from (x, y) to the segment from polygon[i] to its successor
EdgeDist(x, y, polygon, i) ==
    LET n == Len(polygon)
        x1 == polygon[i][1]
        y1 == polygon[i][2]
        x2 == polygon[(i % n) + 1][1]
        y2 == polygon[(i % n) + 1][2]
        dx == Sub(x2, x1)
        dy == Sub(y2, y1)
        length_sq == Add(Mul(dx, dx), Mul(dy, dy))
    IN  IF IsZero(length_sq)
        THEN Sqrt(Add(Sq(Sub(x, x1)), Sq(Sub(y, y1))))
        ELSE LET t == Max(Zero, Min(I(1),
                        Div(Add(Mul(Sub(x, x1), dx), Mul(Sub(y, y1), dy)), length_sq)))
                 proj_x == Add(x1, Mul(t, dx))
                 proj_y == Add(y1, Mul(t, dy))
             IN  Sqrt(Add(Sq(Sub(x, proj_x)), Sq(Sub(y, proj_y))))

RECURSIVE MinEdgeDist(_, _, _, _)
\* min over the edges i..n; the empty minimum (float('inf')) does not arise for n >= 3
MinEdgeDist(x, y, polygon, i) ==
    IF i = Len(polygon) THEN EdgeDist(x, y, polygon, i)
    ELSE Min(EdgeDist(x, y, polygon, i), MinEdgeDist(x, y, polygon, i + 1))

RECURSIVE MaxRadius(_, _, _, _)
\* max over the vertices i..n of the distance to (cx, cy)
MaxRadius(polygon, cx, cy, i) ==
    LET r == Sqrt(Add(Sq(Sub(polygon[i][1], cx)), Sq(Sub(polygon[i][2], cy))))
    IN  IF i = Len(polygon) THEN r
        ELSE Max(r, MaxRadius(polygon, cx, cy, i + 1))

\* mutant of DepthRatio: 0 instead of 0.5 when max_radius is 0
DepthRatioZero(dist_from_center, max_radius) ==
    IF Gt(max_radius, Zero) THEN Div(dist_from_center, max_radius) ELSE Zero

\* the division of line 102, guarded by max_radius > 0
DepthRatio(dist_from_center, max_radius) ==
    IF Gt(max_radius, Zero) THEN Div(dist_from_center, max_radius) ELSE Q(1, 2)

\* mutant of distance_to_polygon_edge: the depth returned without min(1.0, .)
distance_to_polygon_edge_unclamped(x, y, polygon) ==
    IF Len(polygon) < 3 THEN <<Zero, Q(1, 2)>>
    ELSE LET c == polygon_centroid(polygon)
             dist_from_center == Sqrt(Add(Sq(Sub(x, c[1])), Sq(Sub(y, c[2]))))
             max_radius == MaxRadius(polygon, c[1], c[2], 1)
         IN  <<MinEdgeDist(x, y, polygon, 1), DepthRatio(dist_from_center, max_radius)>>

\* distance_to_polygon_edge(x, y, polygon) = <<min_dist, normalized_depth>>
distance_to_polygon_edge(x, y, polygon) ==
    IF Len(polygon) < 3 THEN <<Zero, Q(1, 2)>>
    ELSE LET c == polygon_centroid(polygon)
             dist_from_center == Sqrt(Add(Sq(Sub(x, c[1])), Sq(Sub(y, c[2]))))
             max_radius == MaxRadius(polygon, c[1], c[2], 1)
             normalized_depth == DepthRatio(dist_from_center, max_radius)
         IN  <<MinEdgeDist(x, y, polygon, 1), Min(I(1), normalized_depth)>>

\* calculate_angle_from_center(x, y, center_x, center_y), in degrees
calculate_angle_from_center(x, y, center_x, center_y) ==
    LET dx == Sub(x, center_x)
        dy == Sub(y, center_y)
    IN  Degrees(Atan2(dx, Neg(dy)))

(***************************************************************************)
(* app/models/camera.py                                                    *)
(***************************************************************************)
CameraRotation(x, y, z) == [x |-> x, y |-> y, z |-> z]
CameraPosition(x, y, z, rotation, fov) ==
    [x |-> x, y |-> y, z |-> z, rotation |-> rotation, fov |-> fov]

\* mutant of PitchAngle: +90 degrees whenever horizontal_dist is 0
PitchAngleUp(dz, horizontal_sq) ==
    IF Gt(horizontal_sq, Zero) THEN Atan2Root(dz, horizontal_sq) ELSE HalfPi

\* pitch_angle of lines 57-60; horizontal_sq is horizontal_dist squared
PitchAngle(dz, horizontal_sq) ==
    IF Gt(horizontal_sq, Zero) THEN Atan2Root(dz, horizontal_sq)
    ELSE IF Gt(dz, Zero) THEN HalfPi ELSE Angle("rad", -1, 0)

\* rot_x of line 63
RotX(pitch_angle) == HalfPiMinus(pitch_angle)
\* mutant of RotZ: the arguments of atan2 exchanged
RotZSwapped(dx, dy) == Atan2(dy, dx)
\* rot_z of line 67
RotZ(dx, dy) == Atan2(dx, dy)

\* lines 54-75: the orientation when the camera is not at the target
LookAtGeneral(position, target, fov) ==
    LET dx == Sub(target[1], position[1])
        dy == Sub(target[2], position[2])
        dz == Sub(target[3], position[3])
        horizontal_sq == Add(Mul(dx, dx), Mul(dy, dy))
    IN  CameraPosition(position[1], position[2], position[3],
            CameraRotation(RotX(PitchAngle(dz, horizontal_sq)), ZeroRad, RotZ(dx, dy)),
            fov)

\* total_dist squared, of lines 40-46
TotalSq(position, target) ==
    Add(Add(Sq(Sub(target[1], position[1])), Sq(Sub(target[2], position[2]))),
        Sq(Sub(target[3], position[3])))

\* mutant of from_position_looking_at: no test of total_dist == 0
from_position_looking_at_unguarded(position, target, fov) ==
    LookAtGeneral(position, target, fov)

\* CameraPosition.from_position_looking_at(position, target, fov)
from_position_looking_at(position, target, fov) ==
    IF IsZero(TotalSq(position, target))
    THEN CameraPosition(position[1], position[2], position[3],
             CameraRotation(HalfPi, ZeroRad, ZeroRad), fov)
    ELSE LookAtGeneral(position, target, fov)

\* CameraPosition.to_blender_dict(self)
to_blender_dict(self) ==
    [ location |-> <<self.x, self.y, self.z>>,
      rotation_euler |-> <<self.rotation.x, self.rotation.y, self.rotation.z>>,
      fov |-> self.fov ]

\* sgn*square of the sine and of the cosine of an angle
SsqSin(a) == Q(a.s, AbsI(a.s) + AbsI(a.c))
SsqCos(a) == Q(a.c, AbsI(a.s) + AbsI(a.c))

\* The direction a camera with rotation_euler = (x, 0, z) looks along, each
\* component as sgn*square: the default camera looks down -Z, and the XYZ
\* Euler rotation Rz(z) Rx(x) takes (0, 0, -1) to
\* (-sin x sin z, sin x cos z, -cos x).
ForwardSsq(rotation) ==
    << Neg(Mul(SsqSin(rotation.x), SsqSin(rotation.z))),
       Mul(SsqSin(rotation.x), SsqCos(rotation.z)),
       Neg(SsqCos(rotation.x)) >>

(***************************************************************************)
(* app/models/venue.py                                                     *)
(***************************************************************************)
None == <<>>
Some(x) == <<x>>

Tier(elevation, lo, hi) == [elevation |-> I(elevation), distance_range |-> <<I(lo), I(hi)>>]
Section(id, tier, polygon, angle) ==
    [id |-> id, tier |-> tier, polygon |-> polygon, angle |-> angle]

\* Venue.get_tier(tier_level): self.tiers.get(tier_level)
get_tier(v, tier_level) ==
    IF tier_level \in DOMAIN v.tiers THEN Some(v.tiers[tier_level]) ELSE None

(***************************************************************************)
(* app/services/coordinate_mapper.py                                       *)
(***************************************************************************)
RECURSIVE find_loop(_, _, _, _)
find_loop(v, norm_x, norm_y, i) ==
    IF i > Len(v.sections) THEN Ok(0)
    ELSE LET hit == point_in_polygon(norm_x, norm_y, v.sections[i].polygon)
         IN  IF hit.raised THEN Raised
             ELSE IF hit.value THEN Ok(i)
             ELSE find_loop(v, norm_x, norm_y, i + 1)

RECURSIVE find_last_loop(_, _, _, _)
find_last_loop(v, norm_x, norm_y, i) ==
    IF i = 0 THEN Ok(0)
    ELSE LET hit == point_in_polygon(norm_x, norm_y, v.sections[i].polygon)
         IN  IF hit.raised THEN Raised
             ELSE IF hit.value THEN Ok(i)
             ELSE find_last_loop(v, norm_x, norm_y, i - 1)

\* mutant of find_section: the last containing section wins
find_section_last(v, norm_x, norm_y) == find_last_loop(v, norm_x, norm_y, Len(v.sections))

\* CoordinateMapper.find_section: the index of the section returned, 0 for None
find_section(v, norm_x, norm_y) == find_loop(v, norm_x, norm_y, 1)

\* mutant of EstimateTier: the middle band estimated as tier 300
EstimateTierThree(dist_from_center) ==
    IF Lt(dist_from_center, Q(1, 4))
    THEN <<100, Div(dist_from_center, Q(1, 4))>>
    ELSE IF Lt(dist_from_center, Q(19, 50))
    THEN <<300, Div(Sub(dist_from_center, Q(1, 4)), Q(13, 100))>>
    ELSE <<400, Min(I(1), Div(Sub(dist_from_center, Q(19, 50)), Q(3, 20)))>>

\* mutant of EstimateTier: the first threshold taken inclusive
EstimateTierInclusive(dist_from_center) ==
    IF Le(dist_from_center, Q(1, 4))
    THEN <<100, Div(dist_from_center, Q(1, 4))>>
    ELSE IF Lt(dist_from_center, Q(19, 50))
    THEN <<200, Div(Sub(dist_from_center, Q(1, 4)), Q(13, 100))>>
    ELSE <<400, Min(I(1), Div(Sub(dist_from_center, Q(19, 50)), Q(3, 20)))>>

\* mutant of EstimateTier: the upper tier's depth not clamped
EstimateTierUnclamped(dist_from_center) ==
    IF Lt(dist_from_center, Q(1, 4))
    THEN <<100, Div(dist_from_center, Q(1, 4))>>
    ELSE IF Lt(dist_from_center, Q(19, 50))
    THEN <<200, Div(Sub(dist_from_center, Q(1, 4)), Q(13, 100))>>
    ELSE <<400, Div(Sub(dist_from_center, Q(19, 50)), Q(3, 20))>>

\* the tier and depth buckets of lines 72-80, as <<tier, normalized_depth>>
EstimateTier(dist_from_center) ==
    IF Lt(dist_from_center, Q(1, 4))
    THEN <<100, Div(dist_from_center, Q(1, 4))>>
    ELSE IF Lt(dist_from_center, Q(19, 50))
    THEN <<200, Div(Sub(dist_from_center, Q(1, 4)), Q(13, 100))>>
    ELSE <<400, Min(I(1), Div(Sub(dist_from_center, Q(19, 50)), Q(3, 20)))>>

\* dist_from_center of line 70
DistFromVisualCenter(norm_x, norm_y) ==
    Sqrt(Add(Sq(Sub(norm_x, Q(1, 2))), Sq(Sub(norm_y, Q(9, 20)))))

\* CoordinateMapper.estimate_position_from_click = <<angle_deg, tier, normalized_depth>>
estimate_position_from_click(norm_x, norm_y) ==
    LET angle_deg == calculate_angle_from_center(norm_x, norm_y, Q(1, 2), Q(9, 20))
        bucket == EstimateTier(DistFromVisualCenter(norm_x, norm_y))
    IN  <<angle_deg, bucket[1], bucket[2]>>

\* `image_width or self.venue.seatmap.width`: None and 0 are falsy
OrElse(given, configured) ==
    IF given # None /\ given[1] # 0 THEN given[1] ELSE configured

\* mutant of SectionTierParams: the fallback table's catch-all as the default
SectionTierParamsGeneric(tier) ==
    IF tier = None THEN <<I(15), I(45), I(75)>>
    ELSE <<tier[1].elevation, tier[1].distance_range[1], tier[1].distance_range[2]>>

\* lines 116-122: <<elevation, min_distance, max_distance>> of the section found
SectionTierParams(tier) ==
    IF tier = None THEN <<I(10), I(40), I(70)>>
    ELSE <<tier[1].elevation, tier[1].distance_range[1], tier[1].distance_range[2]>>

\* lines 139-144: tier_defaults.get(tier_level, (15.0, 45, 75))
tier_defaults(tier_level) ==
    CASE tier_level = 100 -> <<I(5), I(30), I(55)>>
      [] tier_level = 200 -> <<I(18), I(50), I(80)>>
      [] tier_level = 400 -> <<I(38), I(70), I(100)>>
      [] OTHER -> <<I(15), I(45), I(75)>>

\* mutant of FallbackTierParams: the section branch's default for a missing tier
FallbackTierParamsSection(tier, tier_level) == SectionTierParams(tier)

\* lines 136-147: <<elevation, min_distance, max_distance>> of the fallback
FallbackTierParams(tier, tier_level) ==
    IF tier = None THEN tier_defaults(tier_level)
    ELSE <<tier[1].elevation, tier[1].distance_range[1], tier[1].distance_range[2]>>

\* mutant of SectionAngle: the fallback's visual centre (0.5, 0.45) as the centre
SectionAngleVisualCentre(section) ==
    IF section.angle # Angle("deg", 0, 1) THEN section.angle
    ELSE LET c == polygon_centroid(section.polygon)
         IN  calculate_angle_from_center(c[1], c[2], Q(1, 2), Q(9, 20))

\* lines 128-132: the section's angle, or the angle of its centroid
SectionAngle(section) ==
    IF section.angle # Angle("deg", 0, 1) THEN section.angle
    ELSE LET c == polygon_centroid(section.polygon)
         IN  calculate_angle_from_center(c[1], c[2], Q(1, 2), Q(1, 2))

\* line 152
InterpDistance(min_distance, max_distance, normalized_depth) ==
    Add(min_distance, Mul(normalized_depth, Sub(max_distance, min_distance)))

\* line 156
home_plate_y == -27

\* lines 159-164: <<camera_x, camera_y, camera_z>>
CameraXYZ(distance, angle_rad, elevation, normalized_depth) ==
    << Mul(distance, Sin(angle_rad)),
       Sub(I(home_plate_y), Mul(distance, Cos(angle_rad))),
       Add(elevation, Mul(normalized_depth, I(3))) >>

\* The operators below take the local variables of map_to_camera_position
\* as parameters, in the order in which the method assigns them.

\* lines 115-132: the section-found branch, p = <<elevation, min, max>>
SectionBranch(norm_x, norm_y, found, section, p) ==
    [branch |-> "section", section |-> found, tier_level |-> section.tier,
     elevation |-> p[1], min_distance |-> p[2], max_distance |-> p[3],
     normalized_depth |-> distance_to_polygon_edge(norm_x, norm_y, section.polygon)[2],
     angle_deg |-> SectionAngle(section)]

\* lines 135-147: the fallback branch, est = <<angle_deg, tier_level, normalized_depth>>
FallbackBranch(est, p) ==
    [branch |-> "fallback", section |-> 0, tier_level |-> est[2],
     elevation |-> p[1], min_distance |-> p[2], max_distance |-> p[3],
     normalized_depth |-> est[3],
     angle_deg |-> est[1]]

FallbackOf(v, est) == FallbackBranch(est, FallbackTierParams(get_tier(v, est[2]), est[2]))

\* lines 114-147: the branch taken and what it resolves
MapBranch(v, norm_x, norm_y, found) ==
    IF found # 0
    THEN SectionBranch(norm_x, norm_y, found, v.sections[found],
                       SectionTierParams(get_tier(v, v.sections[found].tier)))
    ELSE FallbackOf(v, estimate_position_from_click(norm_x, norm_y))

\* lines 149-177: placement and look-at, b the branch's results
MapPlace(v, norm_x, norm_y, width, height, b, distance) ==
    [raised |-> FALSE, norm_x |-> norm_x, norm_y |-> norm_y,
     width |-> width, height |-> height,
     local |-> b, distance |-> distance,
     camera |-> from_position_looking_at(
                    CameraXYZ(distance, Radians(b.angle_deg), b.elevation, b.normalized_depth),
                    v.field_center, 60)]

MapDistance(v, norm_x, norm_y, width, height, b) ==
    MapPlace(v, norm_x, norm_y, width, height, b,
             InterpDistance(b.min_distance, b.max_distance, b.normalized_depth))

\* lines 112-114: find_section and its result
MapFound(v, norm_x, norm_y, width, height, found) ==
    IF found.raised THEN [raised |-> TRUE]
    ELSE MapDistance(v, norm_x, norm_y, width, height,
                     MapBranch(v, norm_x, norm_y, found.value))

\* lines 108-112: normalization
MapNormalize(v, click_x, click_y, width, height) ==
    IF width = 0 \/ height = 0 THEN [raised |-> TRUE]
    ELSE MapFound(v, Div(I(click_x), I(width)), Div(I(click_y), I(height)), width, height,
                  find_section(v, Div(I(click_x), I(width)), Div(I(click_y), I(height))))

\* CoordinateMapper.map_to_camera_position: its result and its local variables
map_to_camera_position(v, click_x, click_y, image_width, image_height) ==
    MapNormalize(v, click_x, click_y,
                 OrElse(image_width, v.seatmap.width),
                 OrElse(image_height, v.seatmap.height))

\* mutant of get_section_info: None too for a section whose tier the venue
\* does not define
get_section_info_tiered(v, click_x, click_y) ==
    LET norm_x == Div(I(click_x), I(v.seatmap.width))
        norm_y == Div(I(click_y), I(v.seatmap.height))
        found == find_section(v, norm_x, norm_y)
    IN  IF found.raised THEN [raised |-> TRUE]
        ELSE IF found.value = 0 THEN [raised |-> FALSE, info |-> None]
        ELSE LET section == v.sections[found.value]
                 tier == get_tier(v, section.tier)
             IN  IF tier = None THEN [raised |-> FALSE, info |-> None]
                 ELSE [raised |-> FALSE,
                       info |-> Some([section_id |-> section.id, tier |-> section.tier,
                                      angle |-> section.angle,
                                      elevation |-> Some(tier[1].elevation)])]

\* mutant of get_section_info: the section reported is the last that contains
\* the click
get_section_info_last(v, click_x, click_y) ==
    LET norm_x == Div(I(click_x), I(v.seatmap.width))
        norm_y == Div(I(click_y), I(v.seatmap.height))
        found == find_section_last(v, norm_x, norm_y)
    IN  IF found.raised THEN [raised |-> TRUE]
        ELSE IF found.value = 0 THEN [raised |-> FALSE, info |-> None]
        ELSE LET section == v.sections[found.value]
                 tier == get_tier(v, section.tier)
             IN  [raised |-> FALSE,
                  info |-> Some([section_id |-> section.id, tier |-> section.tier,
                                 angle |-> section.angle,
                                 elevation |-> IF tier # None THEN Some(tier[1].elevation)
                                               ELSE None])]

\* CoordinateMapper.get_section_info: None, or the record of the section
get_section_info(v, click_x, click_y) ==
    IF v.seatmap.width = 0 \/ v.seatmap.height = 0 THEN [raised |-> TRUE]
    ELSE
    LET norm_x == Div(I(click_x), I(v.seatmap.width))
        norm_y == Div(I(click_y), I(v.seatmap.height))
        found == find_section(v, norm_x, norm_y)
    IN  IF found.raised THEN [raised |-> TRUE]
        ELSE IF found.value = 0 THEN [raised |-> FALSE, info |-> None]
        ELSE LET section == v.sections[found.value]
                 tier == get_tier(v, section.tier)
             IN  [raised |-> FALSE,
                  info |-> Some([section_id |-> section.id, tier |-> section.tier,
                                 angle |-> section.angle,
                                 elevation |-> IF tier # None THEN Some(tier[1].elevation)
                                               ELSE None])]

(***************************************************************************)
(* The venues and the inputs of the model                                  *)
(***************************************************************************)
\* the seatmap of every venue; 20 pixels put 0.45 and 0.5 on the pixel grid
SeatmapConfig == [width |-> 20, height |-> 20]
GridSize == SeatmapConfig.width
\* clicks range over -PixelMargin .. GridSize + PixelMargin, so some fall
\* outside the image
PixelMargin == 1
\* look-at positions and targets have coordinates in -CoordMax .. CoordMax
CoordMax == 1

Pt(x, y) == <<Q(x, GridSize), Q(y, GridSize)>>
Rect(x0, y0, x1, y1) == <<Pt(x0, y0), Pt(x1, y0), Pt(x1, y1), Pt(x0, y1)>>
Deg0 == Angle("deg", 0, 1)

\* sections, on the pixel grid
SecCentre == Section("C", 100, Rect(7, 6, 13, 14), Deg0)
SecTop == Section("T", 100, Rect(7, 1, 13, 9), Deg0)
SecRight == Section("R", 200, Rect(13, 6, 19, 14), Deg0)
SecDiag == Section("D", 300, Rect(10, 2, 16, 10), Deg0)
SecFixed == Section("F", 300, Rect(1, 11, 7, 19), Angle("deg", -9, 16))
SecSquare == Section("S", 100, Rect(8, 8, 12, 12), Deg0)
SecLeft == Section("L", 200, Rect(1, 6, 7, 14), Angle("deg", -1, 0))
SecLine == Section("X", 100, <<Pt(2, 2), Pt(18, 2)>>, Deg0)
SecEmpty == Section("E", 100, <<>>, Deg0)

SecsNone == <<>>
SecsA == <<SecCentre, SecTop, SecRight, SecFixed>>
SecsB == <<SecLeft, SecRight, SecDiag, SecTop, SecCentre>>
SecsC == <<SecEmpty, SecLine, SecSquare, SecFixed>>
SecsOne == <<SecSquare>>

TiersNone == <<>>
TiersA == (100 :> Tier(5, 30, 60)) @@ (200 :> Tier(20, 45, 75)) @@ (400 :> Tier(40, 80, 110))
TiersB == (100 :> Tier(6, 20, 20)) @@ (300 :> Tier(25, 60, 90))
TiersOne == (100 :> Tier(5, 30, 60))

Origin == <<I(0), I(0), I(0)>>
OffCentre == <<I(2), I(5), I(1)>>

Venue(field_center, tiers, sections) ==
    [id |-> "venue", seatmap |-> SeatmapConfig,
     field_center |-> field_center, tiers |-> tiers, sections |-> sections]

Venues ==
    { Venue(Origin, TiersNone, SecsNone),
      Venue(OffCentre, TiersA, SecsNone),
      Venue(Origin, TiersA, SecsA),
      Venue(OffCentre, TiersNone, SecsA),
      Venue(OffCentre, TiersB, SecsB),
      Venue(Origin, TiersA, SecsB),
      Venue(Origin, TiersB, SecsC),
      Venue(OffCentre, TiersNone, SecsC) }

Pixels == (0 - PixelMargin) .. (GridSize + PixelMargin)
Overrides == { None, Some(0), Some(2 * GridSize) }
Coords == (0 - CoordMax) .. CoordMax
Points3 == { <<I(x), I(y), I(z)>> : x \in Coords, y \in Coords, z \in Coords }
\* look-at targets lie on the ground plane, as a field_center does
Targets3 == { <<I(x), I(y), I(0)>> : x \in Coords, y \in Coords }

\* arguments of calculate_angle_from_center: the two zeros of the float
\* format, the centres 0.45 and 0.5 the mapper passes, and points about them
AngleCoords == { NegZero, Zero, Q(9, 20), Q(1, 2), Q(3, 5), I(1) }

\* polygons passed to point_in_polygon and polygon_centroid, as vertex lists
Vx(x, y) == <<I(x), I(y)>>
UnitSquare == <<Vx(0, 0), Vx(1, 0), Vx(1, 1), Vx(0, 1)>>
Square2 == <<Vx(0, 0), Vx(2, 0), Vx(2, 2), Vx(0, 2)>>
TriangleRight == <<Vx(0, 0), Vx(2, 0), Vx(0, 2)>>
TriangleSkew == <<Vx(0, 0), Vx(2, 1), Vx(1, 2)>>
Trapezoid == <<Vx(0, 0), Vx(2, 0), Vx(2, 1), Vx(0, 2)>>
\* the square with one more vertex on its top edge
Pentagon == <<Vx(0, 0), Vx(2, 0), Vx(2, 2), Vx(1, 2), Vx(0, 2)>>
\* not convex: [0, 2] x [0, 1] joined with [0, 1] x [0, 2]
LShape == <<Vx(0, 0), Vx(2, 0), Vx(2, 1), Vx(1, 1), Vx(1, 2), Vx(0, 2)>>
SimpleShapes == { UnitSquare, Square2, TriangleRight, TriangleSkew, Trapezoid, Pentagon, LShape }
\* degenerate vertex lists: fewer than 3 vertices, a horizontal edge alone, a
\* repeated vertex (a zero-length edge), one point three times, collinear points
DegenerateShapes ==
    { <<>>, <<Vx(1, 1)>>, <<Vx(0, 0), Vx(2, 2)>>, <<Vx(0, 1), Vx(2, 1)>>,
      <<Vx(0, 0), Vx(2, 0), Vx(2, 0), Vx(2, 2), Vx(0, 2)>>,
      <<Vx(1, 1), Vx(1, 1), Vx(1, 1)>>, <<Vx(0, 1), Vx(1, 1), Vx(2, 1)>> }

\* the same vertices listed from another first vertex, and in the other sense
Rotated(polygon, k) ==
    [i \in 1..Len(polygon) |-> polygon[((i + k - 1) % Len(polygon)) + 1]]
Reversed(polygon) ==
    [i \in 1..Len(polygon) |-> polygon[Len(polygon) + 1 - i]]
Listings(polygon) ==
    { Rotated(polygon, k) : k \in 0..(Len(polygon) - 1) }
        \cup { Reversed(Rotated(polygon, k)) : k \in 0..(Len(polygon) - 1) }
Polygons == UNION { Listings(polygon) : polygon \in SimpleShapes \cup DegenerateShapes } \cup { <<>> }

\* polygons passed to distance_to_polygon_edge: their vertices are at rational
\* distances from their centroid, (3, 4) for the rectangle and (0, 0) for
\* the rhombus, whose vertices are at distance 4 and 2 from it
Rect68 == <<Vx(0, 0), Vx(6, 0), Vx(6, 8), Vx(0, 8)>>
Rhombus == <<Vx(4, 0), Vx(0, 2), Vx(-4, 0), Vx(0, -2)>>
Coincident3 == <<Vx(1, 1), Vx(1, 1), Vx(1, 1)>>
Coincident4 == <<Vx(3, 0), Vx(3, 0), Vx(3, 0), Vx(3, 0)>>
DepthPolygons ==
    { Rect68, Rhombus, Coincident3, Coincident4,
      <<>>, <<Vx(1, 1)>>, <<Vx(0, 0), Vx(2, 2)>>, <<Vx(0, 1), Vx(2, 1)>> }
DepthCoords == -9..9

\* test points: the half-integer grid about the shapes
PolyCoords == { Q(k, 2) : k \in -1..5 }

(***************************************************************************)
(* app/services/render_client.py                                           *)
(***************************************************************************)
\* app/config.py
CACHE_ENABLED == TRUE
CACHE_POSITION_PRECISION == Q(1, 2)

\* round(a) of one argument: the nearest integer, a tie going to the even one
Round(a) ==
    LET v == V(a)
        f == v[1] \div v[2]
        r == 2 * (v[1] - f * v[2])
    IN  IF r < v[2] THEN f
        ELSE IF r > v[2] THEN f + 1
        ELSE IF f % 2 = 0 THEN f ELSE f + 1

\* round(v / CACHE_POSITION_PRECISION) * CACHE_POSITION_PRECISION
RoundToGrid(v) ==
    Mul(I(Round(Div(v, CACHE_POSITION_PRECISION))), CACHE_POSITION_PRECISION)

\* what a RenderClient reads of its venue; RenderClient(venue) is its self
RenderVenue(id) == [id |-> id, template |-> "template.blend"]
RenderClient(v) == [venue |-> v]

\* mutant of _get_cache_key: the fov is part of the key
_get_cache_key_fov(self, camera) ==
    <<self.venue.id, RoundToGrid(camera.x), RoundToGrid(camera.y), RoundToGrid(camera.z),
      I(camera.fov)>>

\* RenderClient._get_cache_key: the md5 digest of the string of the venue id
\* and the three rounded coordinates is modelled by the four themselves
_get_cache_key(self, camera) ==
    <<self.venue.id, RoundToGrid(camera.x), RoundToGrid(camera.y), RoundToGrid(camera.z)>>

\* The cache directory: for each key None, or Some(the bytes of key.png)
\* RenderClient._get_cached
_get_cached(files, cache_key) ==
    IF ~CACHE_ENABLED THEN None ELSE files[cache_key]

\* RenderClient._save_to_cache
_save_to_cache(files, cache_key, image_data) ==
    IF CACHE_ENABLED THEN [files EXCEPT ![cache_key] = Some(image_data)] ELSE files

\* `if cached:` is false for None and for the empty bytes
Truthy(cached) == cached # None /\ cached[1] # ""

\* the keyword arguments of render_fn.remote, lines 96-109
RemoteRequest(self, camera, width, height, samples) ==
    [venue_id |-> self.venue.id, template_name |-> self.venue.template,
     camera_x |-> camera.x, camera_y |-> camera.y, camera_z |-> camera.z,
     rotation_x |-> camera.rotation.x, rotation_y |-> camera.rotation.y,
     rotation_z |-> camera.rotation.z, fov |-> camera.fov,
     width |-> width, height |-> height, samples |-> samples]

\* lines 82-86 and 88-114 of render, cached the result of _get_cached:
\* the bytes returned, the request sent to the remote renderer if one was,
\* and the cache directory afterwards
RenderCached(files, self, camera, width, height, samples, use_cache, image_data, cache_key, cached) ==
    IF use_cache /\ Truthy(cached)
    THEN [value |-> cached[1], sent |-> None, files |-> files]
    ELSE [value |-> image_data,
          sent |-> Some(RemoteRequest(self, camera, width, height, samples)),
          files |-> IF use_cache THEN _save_to_cache(files, cache_key, image_data) ELSE files]

\* RenderClient.render; image_data is what render_fn.remote returns if called
render(files, self, camera, width, height, samples, use_cache, image_data) ==
    RenderCached(files, self, camera, width, height, samples, use_cache, image_data,
                 _get_cache_key(self, camera),
                 IF use_cache THEN _get_cached(files, _get_cache_key(self, camera)) ELSE None)

\* RenderClient.render_preview and RenderClient.render_full
render_preview(files, self, camera, image_data) ==
    render(files, self, camera, 960, 540, 16, TRUE, image_data)
render_full(files, self, camera, image_data) ==
    render(files, self, camera, 1920, 1080, 64, TRUE, image_data)

\* cameras to render: two in the grid cell of the origin, one of them on the
\* borders of the cell in x and y, and one in a neighbouring cell along each axis
RenderCamera(x, y, z, rot_z, fov) ==
    CameraPosition(x, y, z, CameraRotation(HalfPi, ZeroRad, rot_z), fov)
CamOrigin == RenderCamera(Zero, Zero, Zero, ZeroRad, 60)
CamBorder == RenderCamera(Q(1, 4), Q(-1, 4), Q(1, 5), HalfPi, 90)
CamAlongX == RenderCamera(Q(3, 10), Zero, Zero, ZeroRad, 60)
CamAlongY == RenderCamera(Zero, Q(3, 4), Zero, ZeroRad, 60)
CamAlongZ == RenderCamera(Zero, Zero, Q(-3, 10), ZeroRad, 60)
\* the renders asked for: of every camera in one venue, and of the cameras
\* of the origin's cell in another
RenderCalls ==
    { <<RenderClient(RenderVenue("venue")), camera>> :
          camera \in { CamOrigin, CamBorder, CamAlongX, CamAlongY, CamAlongZ } }
      \cup { <<RenderClient(RenderVenue("arena")), camera>> : camera \in { CamOrigin, CamBorder } }
\* width, height and samples of a render
Qualities == { <<1920, 1080, 64>>, <<640, 360, 8>> }
\* what the remote renderer returns: PNG bytes, or no bytes at all
ImageData == { "", "png A", "png B" }
CacheKeys == { _get_cache_key(call[1], call[2]) : call \in RenderCalls }
NoRenders == [cache_key \in CacheKeys |-> None]

\* The inputs are those for which every square root the mapper feeds into
\* further arithmetic is rational, so that the model's arithmetic is exact.
Dist2(x, y, cx, cy) == Add(Sq(Sub(x, cx)), Sq(Sub(y, cy)))

\* the points whose distance from the centroid is rational, so that the
\* square roots of lines 94-99 are exact
ExactDepth(x, y, polygon) ==
    LET c == polygon_centroid(polygon)
    IN  /\ IsSquare(Dist2(x, y, c[1], c[2]))
        /\ \A i \in 1..Len(polygon) : IsSquare(Dist2(polygon[i][1], polygon[i][2], c[1], c[2]))

ExactInSection(norm_x, norm_y, section, c) ==
    /\ IsSquare(Dist2(norm_x, norm_y, c[1], c[2]))
    /\ \/ IsZero(Dist2(norm_x, norm_y, c[1], c[2]))
       \/ \A i \in 1..Len(section.polygon) :
             IsSquare(Dist2(section.polygon[i][1], section.polygon[i][2], c[1], c[2]))
    /\ \/ section.angle # Deg0
       \/ IsSquare(Dist2(c[1], c[2], Q(1, 2), Q(1, 2)))

ExactFound(v, norm_x, norm_y, found) ==
    IF found.raised THEN TRUE
    ELSE IF found.value = 0 THEN IsSquare(Dist2(norm_x, norm_y, Q(1, 2), Q(9, 20)))
    ELSE ExactInSection(norm_x, norm_y, v.sections[found.value],
                        polygon_centroid(v.sections[found.value].polygon))

ExactPoint(v, norm_x, norm_y) == ExactFound(v, norm_x, norm_y, find_section(v, norm_x, norm_y))

ExactClick(v, click_x, click_y, image_width, image_height) ==
    ExactPoint(v, Div(I(click_x), I(OrElse(image_width, v.seatmap.width))),
                  Div(I(click_y), I(OrElse(image_height, v.seatmap.height))))

(***************************************************************************)
(* The state machine: a CoordinateMapper over one venue and its caller,    *)
(* which makes one call at a time: op is "idle" between calls and names    *)
(* the call whose arguments and result are in args and ret otherwise.      *)
(***************************************************************************)
\* kept is what the caller keeps of an earlier map_to_camera_position call, to
\* compare a later call with: None, or the arguments and the camera returned
\* cache is the directory CACHE_DIR of the render cache
VARIABLES venue, op, args, ret, kept, cache
vars == <<venue, op, args, ret, kept, cache>>

Init ==
    /\ venue \in Venues
    /\ op = "idle"
    /\ args = <<>>
    /\ ret = [raised |-> FALSE]
    /\ kept = None
    /\ cache = NoRenders

\* mapper.map_to_camera_position(click_x, click_y, image_width, image_height)
MapToCameraPosition ==
    \E click_x \in Pixels, click_y \in Pixels, image_width \in Overrides, image_height \in Overrides :
        /\ op = "idle"
        /\ ExactClick(venue, click_x, click_y, image_width, image_height)
        /\ op' = "map_to_camera_position"
        /\ args' = <<click_x, click_y, image_width, image_height>>
        /\ ret' = map_to_camera_position(venue, click_x, click_y, image_width, image_height)
        /\ UNCHANGED <<venue, kept, cache>>

\* mapper.get_section_info(click_x, click_y)
GetSectionInfo ==
    \E click_x \in Pixels, click_y \in Pixels :
        /\ op = "idle"
        /\ op' = "get_section_info"
        /\ args' = <<click_x, click_y>>
        /\ ret' = get_section_info(venue, click_x, click_y)
        /\ UNCHANGED <<venue, kept, cache>>

\* mutant of FindSection: the lookup consumes the first section of the venue
FindSectionPopping ==
    \E x \in Pixels, y \in Pixels :
        /\ op = "idle"
        /\ op' = "find_section"
        /\ args' = Pt(x, y)
        /\ ret' = find_section(venue, Pt(x, y)[1], Pt(x, y)[2])
        /\ venue' = [venue EXCEPT !.sections = IF venue.sections = <<>> THEN <<>> ELSE Tail(venue.sections)]
        /\ UNCHANGED <<kept, cache>>

\* mapper.find_section(norm_x, norm_y)
FindSection ==
    \E x \in Pixels, y \in Pixels :
        /\ op = "idle"
        /\ op' = "find_section"
        /\ args' = Pt(x, y)
        /\ ret' = find_section(venue, Pt(x, y)[1], Pt(x, y)[2])
        /\ UNCHANGED <<venue, kept, cache>>

\* mapper.estimate_position_from_click(norm_x, norm_y)
EstimatePosition ==
    \E x \in Pixels, y \in Pixels :
        /\ op = "idle"
        /\ op' = "estimate_position_from_click"
        /\ args' = Pt(x, y)
        /\ ret' = Ok(estimate_position_from_click(Pt(x, y)[1], Pt(x, y)[2]))
        /\ UNCHANGED <<venue, kept, cache>>

\* CameraPosition.from_position_looking_at(position, target, fov)
LookAt ==
    \E position \in Points3, target \in Targets3, fov \in {60, 90} :
        /\ op = "idle"
        /\ op' = "from_position_looking_at"
        /\ args' = <<position, target, fov>>
        /\ ret' = Ok(from_position_looking_at(position, target, fov))
        /\ UNCHANGED <<venue, kept, cache>>

\* camera.to_blender_dict(), for a camera made by the look-at factory
ToBlenderDict ==
    \E position \in Points3, target \in Targets3, fov \in {60, 90} :
        /\ op = "idle"
        /\ op' = "to_blender_dict"
        /\ args' = <<from_position_looking_at(position, target, fov)>>
        /\ ret' = Ok(to_blender_dict(from_position_looking_at(position, target, fov)))
        /\ UNCHANGED <<venue, kept, cache>>

\* calculate_angle_from_center(x, y, center_x, center_y)
CalculateAngle ==
    \E x \in AngleCoords, y \in AngleCoords, center_x \in AngleCoords, center_y \in AngleCoords :
        /\ op = "idle"
        /\ op' = "calculate_angle_from_center"
        /\ args' = <<x, y, center_x, center_y>>
        /\ ret' = Ok(calculate_angle_from_center(x, y, center_x, center_y))
        /\ UNCHANGED <<venue, kept, cache>>

\* point_in_polygon(x, y, polygon), at a grid point or at the polygon's centroid
PointInPolygon ==
    \E polygon \in Polygons :
        \E point \in (PolyCoords \X PolyCoords) \cup { polygon_centroid(polygon) } :
            /\ op = "idle"
            /\ op' = "point_in_polygon"
            /\ args' = <<point[1], point[2], polygon>>
            /\ ret' = point_in_polygon(point[1], point[2], polygon)
            /\ UNCHANGED <<venue, kept, cache>>

\* polygon_centroid(polygon)
PolygonCentroid ==
    \E polygon \in Polygons :
        /\ op = "idle"
        /\ op' = "polygon_centroid"
        /\ args' = <<polygon>>
        /\ ret' = Ok(polygon_centroid(polygon))
        /\ UNCHANGED <<venue, kept, cache>>

\* distance_to_polygon_edge(x, y, polygon)
DistanceToPolygonEdge ==
    \E polygon \in DepthPolygons, x \in DepthCoords, y \in DepthCoords :
        /\ op = "idle"
        /\ ExactDepth(I(x), I(y), polygon)
        /\ op' = "distance_to_polygon_edge"
        /\ args' = <<I(x), I(y), polygon>>
        /\ ret' = Ok(distance_to_polygon_edge(I(x), I(y), polygon))
        /\ UNCHANGED <<venue, kept, cache>>

\* client.render(camera, width, height, samples, use_cache)
Render ==
    \E call \in RenderCalls, quality \in Qualities, use_cache \in BOOLEAN, image_data \in ImageData :
        /\ op = "idle"
        /\ op' = "render"
        /\ args' = [self |-> call[1], camera |-> call[2], width |-> quality[1],
                    height |-> quality[2], samples |-> quality[3], use_cache |-> use_cache]
        /\ ret' = [raised |-> FALSE,
                   value |-> render(cache, call[1], call[2], quality[1], quality[2], quality[3],
                                    use_cache, image_data).value,
                   sent |-> render(cache, call[1], call[2], quality[1], quality[2], quality[3],
                                   use_cache, image_data).sent]
        /\ cache' = render(cache, call[1], call[2], quality[1], quality[2], quality[3],
                           use_cache, image_data).files
        /\ UNCHANGED <<venue, kept>>

\* client.render_preview(camera)
RenderPreview ==
    \E call \in RenderCalls, image_data \in ImageData :
        /\ op = "idle"
        /\ op' = "render_preview"
        /\ args' = [self |-> call[1], camera |-> call[2]]
        /\ ret' = [raised |-> FALSE,
                   value |-> render_preview(cache, call[1], call[2], image_data).value,
                   sent |-> render_preview(cache, call[1], call[2], image_data).sent]
        /\ cache' = render_preview(cache, call[1], call[2], image_data).files
        /\ UNCHANGED <<venue, kept>>

\* client.render_full(camera)
RenderFull ==
    \E call \in RenderCalls, image_data \in ImageData :
        /\ op = "idle"
        /\ op' = "render_full"
        /\ args' = [self |-> call[1], camera |-> call[2]]
        /\ ret' = [raised |-> FALSE,
                   value |-> render_full(cache, call[1], call[2], image_data).value,
                   sent |-> render_full(cache, call[1], call[2], image_data).sent]
        /\ cache' = render_full(cache, call[1], call[2], image_data).files
        /\ UNCHANGED <<venue, kept>>

\* the caller takes the result; the mapper keeps nothing of the call
Return ==
    /\ op # "idle"
    /\ op' = "idle"
    /\ args' = <<>>
    /\ ret' = [raised |-> FALSE]
    /\ UNCHANGED <<venue, kept, cache>>

\* camera = mapper.map_to_camera_position(click_x, click_y): the caller keeps
\* the camera of a call, of one on the diagonal with the venue's dimensions
Keep ==
    /\ op = "map_to_camera_position"
    /\ ~ret.raised
    /\ kept = None
    /\ args[1] = args[2] /\ args[3] = None /\ args[4] = None
    /\ kept' = Some([args |-> args, camera |-> ret.camera])
    /\ op' = "idle"
    /\ args' = <<>>
    /\ ret' = [raised |-> FALSE]
    /\ UNCHANGED <<venue, cache>>

Next ==
    \/ MapToCameraPosition
    \/ GetSectionInfo
    \/ FindSection
    \/ Return

Spec == Init /\ [][Next]_vars

\* the look-at factory alone, over every position of Points3 and target of Targets3
InitCamera ==
    /\ venue = Venue(Origin, TiersNone, SecsNone)
    /\ op = "idle"
    /\ args = <<>>
    /\ ret = [raised |-> FALSE]
    /\ kept = None
    /\ cache = NoRenders

NextCamera ==
    \/ LookAt
    \/ Return

SpecCamera == InitCamera /\ [][NextCamera]_vars

\* the fallback estimate alone, over every point of the pixel grid
NextEstimate ==
    \/ EstimatePosition
    \/ Return

SpecEstimate == InitCamera /\ [][NextEstimate]_vars

\* the mapper of a venue with one tier and one square section about (0.5, 0.5)
InitScenario ==
    /\ venue = Venue(Origin, TiersOne, SecsOne)
    /\ op = "idle"
    /\ args = <<>>
    /\ ret = [raised |-> FALSE]
    /\ kept = None
    /\ cache = NoRenders

SpecScenario == InitScenario /\ [][Next]_vars

\* calculate_angle_from_center alone, over every argument of AngleCoords
NextAngle ==
    \/ CalculateAngle
    \/ Return

SpecAngle == InitCamera /\ [][NextAngle]_vars

\* the mapper and a caller that keeps one camera and goes on calling
InitRepeat ==
    /\ venue = Venue(Origin, TiersA, SecsA)
    /\ op = "idle"
    /\ args = <<>>
    /\ ret = [raised |-> FALSE]
    /\ kept = None
    /\ cache = NoRenders

NextRepeat ==
    \/ MapToCameraPosition
    \/ GetSectionInfo
    \/ FindSection
    \/ Keep
    \/ Return

SpecRepeat == InitRepeat /\ [][NextRepeat]_vars

\* point_in_polygon and polygon_centroid alone, over every listing of Polygons
NextPolygon ==
    \/ PointInPolygon
    \/ PolygonCentroid
    \/ Return

SpecPolygon == InitCamera /\ [][NextPolygon]_vars

\* distance_to_polygon_edge alone, over DepthPolygons and the integer grid
NextDepth ==
    \/ DistanceToPolygonEdge
    \/ Return

SpecDepth == InitCamera /\ [][NextDepth]_vars

\* the export of a camera alone
NextExport ==
    \/ ToBlenderDict
    \/ Return

SpecExport == InitCamera /\ [][NextExport]_vars

\* the look-at factory, called directly and by map_to_camera_position
NextLevel ==
    \/ MapToCameraPosition
    \/ LookAt
    \/ Return

SpecLevel == Init /\ [][NextLevel]_vars

\* point_in_polygon, called directly and by find_section
NextBorder ==
    \/ PointInPolygon
    \/ FindSection
    \/ Return

\* the venues with sections that share borders
InitBorder ==
    /\ venue \in { Venue(Origin, TiersA, SecsA), Venue(Origin, TiersA, SecsB) }
    /\ op = "idle"
    /\ args = <<>>
    /\ ret = [raised |-> FALSE]
    /\ kept = None
    /\ cache = NoRenders

SpecBorder == InitBorder /\ [][NextBorder]_vars

\* venues without sections, where every click takes the fallback: with no
\* tier, with the tiers 100, 200 and 400, and with the tiers 100 and 300
InitFallback ==
    /\ venue \in { Venue(Origin, TiersNone, SecsNone), Venue(OffCentre, TiersA, SecsNone),
                   Venue(Origin, TiersB, SecsNone) }
    /\ op = "idle"
    /\ args = <<>>
    /\ ret = [raised |-> FALSE]
    /\ kept = None
    /\ cache = NoRenders

\* the fallback estimate, called directly and by map_to_camera_position
NextFallback ==
    \/ MapToCameraPosition
    \/ EstimatePosition
    \/ Return

SpecFallback == InitFallback /\ [][NextFallback]_vars

\* the render client alone, over the calls of RenderCalls
NextRender ==
    \/ Render
    \/ RenderPreview
    \/ RenderFull
    \/ Return

SpecRender == InitCamera /\ [][NextRender]_vars

(***************************************************************************)
(* Properties                                                              *)
(***************************************************************************)
IsMap == op = "map_to_camera_position"
IsLookAt == op = "from_position_looking_at"
IsEstimate == op = "estimate_position_from_click"

\* the divisor map_to_camera_position uses for an optional dimension
Effective(given, configured) ==
    IF given = None \/ given = Some(0) THEN configured ELSE given[1]
\* the normalized click of the map_to_camera_position call in args
ClickX == Div(I(args[1]), I(Effective(args[3], venue.seatmap.width)))
ClickY == Div(I(args[2]), I(Effective(args[4], venue.seatmap.height)))

\* the sections of the venue whose polygon contains (x, y)
Containing(x, y) ==
    { i \in 1..Len(venue.sections) :
        point_in_polygon(x, y, venue.sections[i].polygon).value }

\* C1: on a venue with positive seatmap dimensions map_to_camera_position
\* never raises and returns a camera for every click, inside a section,
\* outside all sections or outside the image; a click that no section
\* contains gets the angle, tier and depth of estimate_position_from_click.
\* The section lookups it rests on never raise either.
ThmC1 ==
    /\ IsMap =>
          /\ ~ret.raised
          /\ "camera" \in DOMAIN ret
          /\ Containing(ClickX, ClickY) = {} =>
                /\ ret.local.branch = "fallback"
                /\ <<ret.local.angle_deg, ret.local.tier_level, ret.local.normalized_depth>>
                      = estimate_position_from_click(ClickX, ClickY)
    /\ op \in {"find_section", "get_section_info"} => ~ret.raised

\* a click outside the image, in no section, mapped through the fallback
WitC1 ==
    /\ IsMap
    /\ args[2] < 0
    /\ venue.sections # <<>>
    /\ ~ret.raised
    /\ ret.local.branch = "fallback"

\* C2: find_section returns the first section, in the venue's order, whose
\* polygon contains the point, and None (0) without raising when none does.
ThmC2 ==
    op = "find_section" =>
        LET hits == Containing(args[1], args[2])
        IN  /\ ~ret.raised
            /\ hits = {} => ret.value = 0
            /\ hits # {} => /\ ret.value \in hits
                            /\ \A j \in hits : ret.value <= j

\* a point in three overlapping sections, none of them the first of the list
WitC2 ==
    /\ op = "find_section"
    /\ Cardinality(Containing(args[1], args[2])) >= 3
    /\ ret.value > 1

\* the camera of a look-at call looks along target - position: each
\* component of its forward vector, as sgn*square, is that of the unit
\* vector from position to target
AimsAtTarget ==
    \A k \in 1..3 :
        Eq(ForwardSsq(ret.value.rotation)[k],
           Div(Ssq(Sub(args[2][k], args[1][k])), TotalSq(args[1], args[2])))

\* C3: for every position P and target T with P # T the camera returned by
\* from_position_looking_at(P, T) is aimed at T: its forward vector is
\* parallel to, and in the direction of, T - P.
CexC3 == (IsLookAt /\ args[1] # args[2]) => AimsAtTarget

\* C4: from_position_looking_at(P, P) raises nothing and returns the camera
\* at P with pitch pi/2, yaw 0, roll 0 and the requested fov.
ThmC4 ==
    (IsLookAt /\ args[1] = args[2]) =>
        ret = Ok([x |-> args[1][1], y |-> args[1][2], z |-> args[1][3],
                  rotation |-> [x |-> Angle("rad", 1, 0),
                                y |-> Angle("rad", 0, 1),
                                z |-> Angle("rad", 0, 1)],
                  fov |-> args[3]])

\* a camera at its target, away from the origin, with a fov of its own
WitC4 ==
    /\ IsLookAt
    /\ args[1] = args[2]
    /\ args[1] # Origin
    /\ args[3] = 90
    /\ ret.value.rotation.x = Angle("rad", 1, 0)

\* the square of the distance of the estimate's point from (0.5, 0.45)
EstimateDist2 == Add(Sq(Sub(args[1], Q(1, 2))), Sq(Sub(args[2], Q(9, 20))))

\* C5: with d the distance of the normalized click from (0.5, 0.45):
\* d < 0.25 gives tier 100 and depth d/0.25; 0.25 <= d < 0.38 gives tier 200
\* and depth (d - 0.25)/0.13; d >= 0.38 gives tier 400 and depth
\* min(1, (d - 0.38)/0.15); tier 100 exactly when the click is within 0.25 of
\* the centre; the depth is in [0, 1].
ThmC5 ==
    IsEstimate =>
        LET d == Sqrt(EstimateDist2)
            tier == ret.value[2]
            depth == ret.value[3]
        IN  /\ Lt(d, Q(1, 4)) => tier = 100 /\ Eq(depth, Div(d, Q(1, 4)))
            /\ (Ge(d, Q(1, 4)) /\ Lt(d, Q(19, 50))) =>
                  tier = 200 /\ Eq(depth, Div(Sub(d, Q(1, 4)), Q(13, 100)))
            /\ Ge(d, Q(19, 50)) =>
                  /\ tier = 400
                  /\ Eq(depth, Min(I(1), Div(Sub(d, Q(19, 50)), Q(3, 20))))
            /\ tier = 100 <=> Lt(EstimateDist2, Sq(Q(1, 4)))
            /\ tier = 400 <=> Ge(EstimateDist2, Sq(Q(19, 50)))
            /\ tier \in {100, 200, 400}
            /\ Le(Zero, depth) /\ Le(depth, I(1))

\* a click at distance 0.25 exactly: the first point of tier 200
WitC5 ==
    /\ IsEstimate
    /\ EstimateDist2 = Q(1, 16)
    /\ ret.value[2] = 200
    /\ ret.value[3] = Zero

\* the section a map_to_camera_position call found
FoundSection == venue.sections[ret.local.section]
InSectionBranch == IsMap /\ ~ret.raised /\ ret.local.branch = "section"
InFallbackBranch == IsMap /\ ~ret.raised /\ ret.local.branch = "fallback"
TierParams(t) == <<t.elevation, t.distance_range[1], t.distance_range[2]>>
Resolved == <<ret.local.elevation, ret.local.min_distance, ret.local.max_distance>>

\* C6: in the section-found branch a section whose tier level has no Tier
\* in the venue gets elevation 10 and distance range (40, 70), and a camera
\* is still returned; a section whose Tier exists gets that Tier's values.
ThmC6 ==
    InSectionBranch =>
        /\ "camera" \in DOMAIN ret
        /\ IF FoundSection.tier \in DOMAIN venue.tiers
           THEN Resolved = TierParams(venue.tiers[FoundSection.tier])
           ELSE Resolved = <<I(10), I(40), I(70)>>

\* a click in a section of tier 300 in a venue that has tiers, but not 300
WitC6 ==
    /\ InSectionBranch
    /\ FoundSection.tier = 300
    /\ DOMAIN venue.tiers # {}
    /\ 300 \notin DOMAIN venue.tiers
    /\ ret.local.elevation = I(10)

\* C7: in the fallback branch the elevation and distance range are those of
\* the venue's Tier at the estimated level when it has one, and otherwise
\* 100 -> (5, 30, 55), 200 -> (18, 50, 80), 400 -> (38, 70, 100), any other
\* level -> (15, 45, 75); a camera is returned in both cases.
ThmC7 ==
    /\ InFallbackBranch =>
          /\ "camera" \in DOMAIN ret
          /\ IF ret.local.tier_level \in DOMAIN venue.tiers
             THEN Resolved = TierParams(venue.tiers[ret.local.tier_level])
             ELSE Resolved = CASE ret.local.tier_level = 100 -> <<I(5), I(30), I(55)>>
                               [] ret.local.tier_level = 200 -> <<I(18), I(50), I(80)>>
                               [] ret.local.tier_level = 400 -> <<I(38), I(70), I(100)>>
                               [] OTHER -> <<I(15), I(45), I(75)>>
    /\ \A level \in {0, 300, 500} : tier_defaults(level) = <<I(15), I(45), I(75)>>

\* a fallback click of tier 200 in a venue that defines tier 100 only
WitC7 ==
    /\ InFallbackBranch
    /\ ret.local.tier_level = 200
    /\ 100 \in DOMAIN venue.tiers
    /\ 200 \notin DOMAIN venue.tiers
    /\ Resolved = <<I(18), I(50), I(80)>>

\* C8: in the section-found branch the angle is the section's configured
\* angle when that is non-zero, and otherwise calculate_angle_from_center of
\* the vertex mean of the section's polygon about (0.5, 0.5); in neither case
\* does it depend on the click.
ThmC8 ==
    InSectionBranch =>
        IF FoundSection.angle # Angle("deg", 0, 1)
        THEN ret.local.angle_deg = FoundSection.angle
        ELSE ret.local.angle_deg =
                 calculate_angle_from_center(polygon_centroid(FoundSection.polygon)[1],
                                             polygon_centroid(FoundSection.polygon)[2],
                                             Q(1, 2), Q(1, 2))

\* a click away from the centroid of a section to the right of the centre
\* that has no configured angle: the angle is 90 degrees
WitC8 ==
    /\ InSectionBranch
    /\ FoundSection.angle = Angle("deg", 0, 1)
    /\ <<ClickX, ClickY>> # polygon_centroid(FoundSection.polygon)
    /\ ret.local.angle_deg = Angle("deg", 1, 0)

\* C9: in both branches normalized_depth is in [0, 1], the distance is
\* min + depth * (max - min), so min <= distance <= max for a tier with
\* min <= max, the camera lies at that distance from (0, -27), and
\* z = elevation + 3 * depth lies in [elevation, elevation + 3].
ThmC9 ==
    (IsMap /\ ~ret.raised /\ Le(ret.local.min_distance, ret.local.max_distance)) =>
        LET l == ret.local
            cam == ret.camera
            distance == Add(l.min_distance,
                            Mul(l.normalized_depth, Sub(l.max_distance, l.min_distance)))
        IN  /\ Le(Zero, l.normalized_depth) /\ Le(l.normalized_depth, I(1))
            /\ Eq(ret.distance, distance)
            /\ Le(l.min_distance, distance) /\ Le(distance, l.max_distance)
            /\ Eq(Add(Sq(cam.x), Sq(Add(cam.y, I(27)))), Sq(distance))
            /\ Eq(cam.z, Add(l.elevation, Mul(I(3), l.normalized_depth)))
            /\ Le(l.elevation, cam.z) /\ Le(cam.z, Add(l.elevation, I(3)))

\* a fallback click beyond 0.53 of the centre: the depth is clamped to 1 and
\* the camera stands at max_distance, 3 above the tier's elevation
WitC9 ==
    /\ InFallbackBranch
    /\ Gt(Add(Sq(Sub(ClickX, Q(1, 2))), Sq(Sub(ClickY, Q(9, 20)))), Sq(Q(53, 100)))
    /\ ret.local.normalized_depth = I(1)
    /\ ret.distance = ret.local.max_distance
    /\ Lt(ret.local.min_distance, ret.local.max_distance)
    /\ ret.camera.z = Add(ret.local.elevation, I(3))

\* C10: the camera stands on the circle of radius `distance` about the
\* anchor, the venue's field_center displaced by -27 along y:
\* x = distance*sin(angle), y = (field_center.y - 27) - distance*cos(angle).
CexC10 ==
    (IsMap /\ ~ret.raised) =>
        LET angle_rad == Radians(ret.local.angle_deg)
            anchor_y == Sub(venue.field_center[2], I(27))
        IN  /\ Eq(ret.camera.x, Mul(ret.distance, Sin(angle_rad)))
            /\ Eq(ret.camera.y, Sub(anchor_y, Mul(ret.distance, Cos(angle_rad))))


\* the camera of a map_to_camera_position call looks along
\* field_center - camera: each component of its forward vector, as
\* sgn*square, is that of the unit vector from the camera to the field centre
CameraAimsAtField ==
    LET P == <<ret.camera.x, ret.camera.y, ret.camera.z>>
    IN  /\ ~IsZero(TotalSq(P, venue.field_center))
        /\ \A k \in 1..3 :
              Eq(ForwardSsq(ret.camera.rotation)[k],
                 Div(Ssq(Sub(venue.field_center[k], P[k])), TotalSq(P, venue.field_center)))

\* C11: in the venue with tier 100 = (5, (30, 60)), field_center (0, 0, 0) and
\* the one tier-100 section [0.4, 0.6] x [0.4, 0.6] of angle 0, a click that
\* normalizes to (0.5, 0.5) finds the section, gets the angle 0 degrees from
\* the centroid (0.5, 0.5), a distance between 30 and 60, and a camera with
\* x = 0 at that distance from the anchor (0, -27), oriented toward (0, 0, 0).
CexC11 ==
    (IsMap /\ ClickX = Q(1, 2) /\ ClickY = Q(1, 2)) =>
        /\ ~ret.raised
        /\ ret.local.branch = "section"
        /\ venue.sections[ret.local.section].id = "S"
        /\ polygon_centroid(venue.sections[ret.local.section].polygon) = <<Q(1, 2), Q(1, 2)>>
        /\ ret.local.angle_deg = Angle("deg", 0, 1)
        /\ Le(I(30), ret.distance) /\ Le(ret.distance, I(60))
        /\ Eq(ret.camera.x, Zero)
        /\ Eq(Sq(Add(ret.camera.y, I(27))), Sq(ret.distance))
        /\ CameraAimsAtField


IsAngle == op = "calculate_angle_from_center"

\* the directions of the convention: 0 degrees straight above the centre,
\* positive to the right of it with +90 at the centre's height, negative to
\* the left of it
AngleConvention ==
    LET x == args[1]
        y == args[2]
        center_x == args[3]
        center_y == args[4]
    IN  /\ (Eq(x, center_x) /\ Lt(y, center_y)) => ret.value = Angle("deg", 0, 1)
        /\ Gt(x, center_x) => ret.value.s > 0
        /\ (Gt(x, center_x) /\ Eq(y, center_y)) => ret.value = Angle("deg", 1, 0)
        /\ Lt(x, center_x) => ret.value.s < 0

\* C12: calculate_angle_from_center gives 0 degrees for a point straight
\* above the centre, a positive angle for a point to the right of it (+90 at
\* the same y), a negative angle for a point to the left, and always a
\* result in (-180, 180], so never -180.
CexC12 ==
    IsAngle =>
        /\ AngleConvention
        /\ ret.value.unit = "deg"
        /\ ~ret.value.neg

\* C13: calculate_angle_from_center returns 0 whenever x == center_x and
\* y == center_y, as for calculate_angle_from_center(0.5, 0.5, 0.5, 0.5).
CexC13 ==
    (IsAngle /\ Eq(args[1], args[3]) /\ Eq(args[2], args[4])) =>
        ret.value = Angle("deg", 0, 1)


\* a map_to_camera_position call with the arguments of the call the caller
\* kept returns the camera it kept
SameAsKept ==
    (IsMap /\ kept # None /\ args = kept[1].args) =>
        /\ ~ret.raised
        /\ ret.camera = kept[1].camera

IsInfo == op = "get_section_info"
\* the sections that contain the click of the get_section_info call in args,
\* normalized by the venue's seatmap dimensions
InfoHits ==
    Containing(Div(I(args[1]), I(venue.seatmap.width)),
               Div(I(args[2]), I(venue.seatmap.height)))
\* the first of them in the venue's order
InfoSection == venue.sections[CHOOSE i \in InfoHits : \A j \in InfoHits : i <= j]

\* C15: get_section_info returns None, without raising, when the click
\* normalized by the seatmap dimensions is in no section's polygon; otherwise
\* it returns the id, tier level and angle of the first section containing
\* it, with the elevation of that section's Tier where the venue has it.
ThmC15 ==
    IsInfo =>
        /\ ~ret.raised
        /\ InfoHits = {} <=> ret.info = None
        /\ InfoHits # {} =>
              /\ DOMAIN ret.info[1] = {"section_id", "tier", "angle", "elevation"}
              /\ ret.info[1].section_id = InfoSection.id
              /\ ret.info[1].tier = InfoSection.tier
              /\ ret.info[1].angle = InfoSection.angle
              /\ InfoSection.tier \in DOMAIN venue.tiers =>
                    ret.info[1].elevation = Some(venue.tiers[InfoSection.tier].elevation)

\* a click in two sections or more, the first of them with a Tier of the venue
WitC15 ==
    /\ IsInfo
    /\ Cardinality(InfoHits) >= 2
    /\ ret.info # None
    /\ ret.info[1].section_id = InfoSection.id
    /\ ret.info[1].elevation # None

\* C16: for a section whose tier level has no Tier in the venue, every
\* operation that reports an elevation for it, map_to_camera_position and
\* get_section_info, reports a substituted default number, never null.
CexC16 ==
    /\ (InSectionBranch /\ FoundSection.tier \notin DOMAIN venue.tiers) =>
          ret.local.elevation = I(10)
    /\ (IsInfo /\ ~ret.raised /\ InfoHits # {} /\ InfoSection.tier \notin DOMAIN venue.tiers) =>
          ret.info[1].elevation # None


IsPointInPolygon == op = "point_in_polygon"
\* the point and the vertex list of the point_in_polygon call in args
PipPoint == <<args[1], args[2]>>
PipPolygon == args[3]

\* the side of the line from a to b that p lies on: 1, -1, or 0 on the line
Side(a, b, p) ==
    LET cross == Sub(Mul(Sub(b[1], a[1]), Sub(p[2], a[2])),
                     Mul(Sub(b[2], a[2]), Sub(p[1], a[1])))
    IN  IF IsZero(cross) THEN 0 ELSE IF IsNeg(cross) THEN -1 ELSE 1
Succ(polygon, i) == (i % Len(polygon)) + 1
\* the sides of p with respect to the edges, and the turns at the vertices
EdgeSides(polygon, p) ==
    { Side(polygon[i], polygon[Succ(polygon, i)], p) : i \in 1..Len(polygon) }
Turns(polygon) ==
    { Side(polygon[i], polygon[Succ(polygon, i)], polygon[Succ(polygon, Succ(polygon, i))]) :
        i \in 1..Len(polygon) }
\* convex, with at least 3 vertices, no three in a row collinear
IsConvex(polygon) == Len(polygon) >= 3 /\ Turns(polygon) \in { {1}, {-1} }

InOpenRect(p, x0, y0, x1, y1) ==
    Lt(I(x0), p[1]) /\ Lt(p[1], I(x1)) /\ Lt(I(y0), p[2]) /\ Lt(p[2], I(y1))
InClosedRect(p, x0, y0, x1, y1) ==
    Le(I(x0), p[1]) /\ Le(p[1], I(x1)) /\ Le(I(y0), p[2]) /\ Le(p[2], I(y1))

\* p strictly inside, and strictly outside, the region the polygon bounds:
\* by the sides of its edges for a convex polygon, by the rectangles they are
\* made of for the L-shape and the pentagon
StrictlyInside(polygon, p) ==
    IF IsConvex(polygon) THEN EdgeSides(polygon, p) \in { {1}, {-1} }
    ELSE IF polygon \in Listings(LShape)
    THEN InOpenRect(p, 0, 0, 2, 1) \/ InOpenRect(p, 0, 0, 1, 2)
    ELSE polygon \in Listings(Pentagon) /\ InOpenRect(p, 0, 0, 2, 2)
StrictlyOutside(polygon, p) ==
    IF IsConvex(polygon) THEN {1, -1} \subseteq EdgeSides(polygon, p)
    ELSE IF polygon \in Listings(LShape)
    THEN ~InClosedRect(p, 0, 0, 2, 1) /\ ~InClosedRect(p, 0, 0, 1, 2)
    ELSE polygon \in Listings(Pentagon) /\ ~InClosedRect(p, 0, 0, 2, 2)

\* C17: for a simple polygon, in every listing of its vertices (either sense,
\* any first vertex), point_in_polygon returns true for a point strictly
\* inside and false for a point strictly outside; for the square
\* [[0,0],[1,0],[1,1],[0,1]] it is true at (0.5, 0.5) and false at (2, 2).
ThmC17 ==
    IsPointInPolygon =>
        /\ StrictlyInside(PipPolygon, PipPoint) => ret = Ok(TRUE)
        /\ StrictlyOutside(PipPolygon, PipPoint) => ret = Ok(FALSE)
        /\ (PipPolygon = UnitSquare /\ PipPoint = <<Q(1, 2), Q(1, 2)>>) => ret = Ok(TRUE)
        /\ (PipPolygon = UnitSquare /\ PipPoint = <<I(2), I(2)>>) => ret = Ok(FALSE)

\* the L-shape listed in the other sense from another vertex, and a point
\* inside it at the height of two of its vertices
WitC17 ==
    /\ IsPointInPolygon
    /\ PipPolygon = Reversed(Rotated(LShape, 2))
    /\ PipPoint = <<Q(1, 2), I(1)>>
    /\ StrictlyInside(PipPolygon, PipPoint)
    /\ ret = Ok(TRUE)

\* C18: point_in_polygon never raises, whatever the vertex list: zero-length
\* edges, horizontal edges at the point's y, repeated vertices, fewer than 3
\* vertices, none; the division by yj - yi is reached only when yi # yj; for
\* fewer than 3 vertices the result is false.
ThmC18 ==
    IsPointInPolygon =>
        /\ ~ret.raised
        /\ ret.value \in BOOLEAN
        /\ Len(PipPolygon) < 3 => ret.value = FALSE

\* a point on a horizontal edge that is the whole polygon
WitC18 ==
    /\ IsPointInPolygon
    /\ PipPolygon = <<Vx(0, 1), Vx(2, 1)>>
    /\ PipPoint = <<I(1), I(1)>>
    /\ ret = Ok(FALSE)

\* C19: for a convex polygon with at least 3 vertices, no three in a row
\* collinear, point_in_polygon is true at the point polygon_centroid returns.
ThmC19 ==
    (IsPointInPolygon /\ IsConvex(PipPolygon) /\ PipPoint = polygon_centroid(PipPolygon)) =>
        ret = Ok(TRUE)

\* a triangle and its centroid (2/3, 2/3), which is off the grid
WitC19 ==
    /\ IsPointInPolygon
    /\ PipPolygon \in Listings(TriangleRight)
    /\ PipPoint = <<Q(2, 3), Q(2, 3)>>
    /\ PipPoint = polygon_centroid(PipPolygon)
    /\ ret = Ok(TRUE)

RECURSIVE VertexTotal(_, _, _)
\* the sum of coordinate k of the first n vertices
VertexTotal(polygon, k, n) ==
    IF n = 0 THEN Zero ELSE Add(VertexTotal(polygon, k, n - 1), polygon[n][k])

\* C20: polygon_centroid returns the arithmetic mean of the vertices, (1, 1)
\* for [[0,0],[2,0],[2,2],[0,2]], the same for every listing of the
\* vertices, and (0, 0) for the empty polygon.
ThmC20 ==
    op = "polygon_centroid" =>
        LET polygon == args[1]
            n == Len(polygon)
        IN  /\ ~ret.raised
            /\ n = 0 => ret.value = <<Zero, Zero>>
            /\ n > 0 => \A k \in 1..2 :
                            Eq(Mul(I(n), ret.value[k]), VertexTotal(polygon, k, n))
            /\ polygon = Square2 => ret.value = <<I(1), I(1)>>
            /\ \A listing \in Listings(polygon) : polygon_centroid(listing) = ret.value

\* the pentagon: the mean of its vertices is (1, 6/5), the centroid of its
\* area (1, 1)
WitC20 ==
    /\ op = "polygon_centroid"
    /\ args[1] \in Listings(Pentagon)
    /\ args[1] # Pentagon
    /\ ret.value = <<I(1), Q(6, 5)>>


IsDepth == op = "distance_to_polygon_edge"
\* the distinct vertices of the polygon of a distance_to_polygon_edge call
DepthVertices == { args[3][i] : i \in 1..Len(args[3]) }

\* C21: distance_to_polygon_edge never raises on a degenerate polygon: with
\* fewer than 3 vertices it returns exactly (0, 0.5), and with 3 vertices or
\* more that all coincide (max_radius = 0) it returns normalized_depth 0.5.
ThmC21 ==
    IsDepth =>
        /\ ~ret.raised
        /\ Len(args[3]) < 3 => ret.value = <<Zero, Q(1, 2)>>
        /\ (Len(args[3]) >= 3 /\ Cardinality(DepthVertices) = 1) => ret.value[2] = Q(1, 2)

\* four coincident vertices, and a point away from them
WitC21 ==
    /\ IsDepth
    /\ args[3] = Coincident4
    /\ <<args[1], args[2]>> = Vx(3, 4)
    /\ ret.value[2] = Q(1, 2)

\* the squares of the distance of the point from the vertex mean, and of the
\* largest distance of a vertex from it
DepthCentre ==
    <<Div(VertexTotal(args[3], 1, Len(args[3])), I(Len(args[3]))),
      Div(VertexTotal(args[3], 2, Len(args[3])), I(Len(args[3])))>>
DepthDist2 == Add(Sq(Sub(args[1], DepthCentre[1])), Sq(Sub(args[2], DepthCentre[2])))
VertexDist2(v) == Add(Sq(Sub(v[1], DepthCentre[1])), Sq(Sub(v[2], DepthCentre[2])))
DepthRadius2 ==
    LET far == CHOOSE v \in DepthVertices : \A w \in DepthVertices : Le(VertexDist2(w), VertexDist2(v))
    IN  VertexDist2(far)

IsExport == op = "to_blender_dict"

\* C23: the record a CameraPosition exports has exactly the fields
\* position, rotation_euler and fov, with position = (x, y, z),
\* rotation_euler = (rotation.x, rotation.y, rotation.z) and fov the
\* camera's fov.
CexC23 ==
    IsExport =>
        /\ DOMAIN ret.value = {"position", "rotation_euler", "fov"}
        /\ ret.value.position = <<args[1].x, args[1].y, args[1].z>>
        /\ ret.value.rotation_euler = <<args[1].rotation.x, args[1].rotation.y, args[1].rotation.z>>
        /\ ret.value.fov = args[1].fov


\* the camera a call has produced, and the target it was aimed at
MadeCamera == IF IsMap THEN ret.camera ELSE ret.value
MadeTarget == IF IsMap THEN venue.field_center ELSE args[2]
MadeDx == Sub(MadeTarget[1], MadeCamera.x)
MadeDy == Sub(MadeTarget[2], MadeCamera.y)
MadeDz == Sub(MadeTarget[3], MadeCamera.z)
MadeHorizontalSq == Add(Sq(MadeDx), Sq(MadeDy))
\* pi/2 - pitch, the pitch being the elevation of the target over the horizontal
PitchInRotX ==
    IF Gt(MadeHorizontalSq, Zero)
    THEN LET d == Dir(Ssq(MadeDz), MadeHorizontalSq) IN Angle("rad", d[2], d[1])
    ELSE IF Gt(MadeDz, Zero) THEN Angle("rad", 0, 1)
    ELSE IF IsNeg(MadeDz) THEN Angle("rad", 0, -1)
    ELSE Angle("rad", 1, 0)

Passed(given, configured) == IF given = None THEN configured ELSE given[1]

\* C25: an image_width / image_height passed explicitly to
\* map_to_camera_position is the divisor that normalizes the click, each
\* independently of the other, and the venue's seatmap dimension is the
\* divisor only for an argument that was not passed.
CexC25 ==
    IsMap =>
        IF Passed(args[3], venue.seatmap.width) = 0 \/ Passed(args[4], venue.seatmap.height) = 0
        THEN ret.raised
        ELSE ~ret.raised =>
                /\ ret.width = Passed(args[3], venue.seatmap.width)
                /\ ret.height = Passed(args[4], venue.seatmap.height)
                /\ ret.norm_x = Div(I(args[1]), I(ret.width))
                /\ ret.norm_y = Div(I(args[2]), I(ret.height))


\* target - position of a from_position_looking_at call
AimDx == Sub(args[2][1], args[1][1])
AimDy == Sub(args[2][2], args[1][2])
AimDz == Sub(args[2][3], args[1][3])
\* an angle in radians within [0, pi]
InZeroToPi(a) == a.unit = "rad" /\ a.s >= 0 /\ ~a.neg

\* C26: with the target directly above or below the camera (dx = dy = 0,
\* dz # 0) rotation.x is 0 when the target is above and pi when it is below,
\* and rotation.z is 0; whenever the camera is not at the target rotation.x
\* lies in [0, pi] and is pi/2 exactly when dz = 0.
ThmC26 ==
    IsLookAt =>
        /\ (IsZero(AimDx) /\ IsZero(AimDy) /\ Gt(AimDz, Zero)) =>
              ret.value.rotation.x = Angle("rad", 0, 1) /\ ret.value.rotation.z = ZeroRad
        /\ (IsZero(AimDx) /\ IsZero(AimDy) /\ Lt(AimDz, Zero)) =>
              ret.value.rotation.x = Angle("rad", 0, -1) /\ ret.value.rotation.z = ZeroRad
        /\ ~IsZero(TotalSq(args[1], args[2])) =>
              /\ InZeroToPi(ret.value.rotation.x)
              /\ ret.value.rotation.x = HalfPi <=> IsZero(AimDz)

\* the camera one metre above its target looks straight down
WitC26 ==
    /\ IsLookAt
    /\ args[1] = <<I(1), I(-1), I(1)>> /\ args[2] = <<I(1), I(-1), I(0)>>
    /\ ret.value.rotation.x = Angle("rad", 0, -1)
    /\ ret.value.rotation.z = ZeroRad


IsFindSection == op = "find_section"
\* the least and the greatest k-th coordinate of the vertices
Lo(polygon, k) ==
    CHOOSE v \in { polygon[i][k] : i \in 1..Len(polygon) } :
        \A i \in 1..Len(polygon) : Le(v, polygon[i][k])
Hi(polygon, k) ==
    CHOOSE v \in { polygon[i][k] : i \in 1..Len(polygon) } :
        \A i \in 1..Len(polygon) : Le(polygon[i][k], v)
\* the four corners of an axis-aligned rectangle, in some order
AxisRect(polygon) ==
    /\ Len(polygon) = 4
    /\ Lt(Lo(polygon, 1), Hi(polygon, 1)) /\ Lt(Lo(polygon, 2), Hi(polygon, 2))
    /\ { polygon[i] : i \in 1..4 } =
           { <<Lo(polygon, 1), Lo(polygon, 2)>>, <<Hi(polygon, 1), Lo(polygon, 2)>>,
             <<Hi(polygon, 1), Hi(polygon, 2)>>, <<Lo(polygon, 1), Hi(polygon, 2)>> }
Within(v, lo, hi) == Le(lo, v) /\ Le(v, hi)
\* p on the edges of the rectangle R
OnMinX(p, R) == Eq(p[1], Lo(R, 1)) /\ Within(p[2], Lo(R, 2), Hi(R, 2))
OnMaxX(p, R) == Eq(p[1], Hi(R, 1)) /\ Within(p[2], Lo(R, 2), Hi(R, 2))
OnMinY(p, R) == Eq(p[2], Lo(R, 2)) /\ Within(p[1], Lo(R, 1), Hi(R, 1))
OnMaxY(p, R) == Eq(p[2], Hi(R, 2)) /\ Within(p[1], Lo(R, 1), Hi(R, 1))
\* the half-open convention on the edges of a rectangle
HalfOpen ==
    (IsPointInPolygon /\ AxisRect(PipPolygon)) =>
        /\ ~ret.raised
        /\ (OnMaxX(PipPoint, PipPolygon) \/ OnMaxY(PipPoint, PipPolygon)) => ~ret.value
        /\ ((OnMinX(PipPoint, PipPolygon) \/ OnMinY(PipPoint, PipPolygon))
              /\ ~OnMaxX(PipPoint, PipPolygon) /\ ~OnMaxY(PipPoint, PipPolygon)) => ret.value

\* the rectangles A and B have a whole edge in common, B on the greater side
SharesX(A, B) ==
    Eq(Hi(A, 1), Lo(B, 1)) /\ Eq(Lo(A, 2), Lo(B, 2)) /\ Eq(Hi(A, 2), Hi(B, 2))
SharesY(A, B) ==
    Eq(Hi(A, 2), Lo(B, 2)) /\ Eq(Lo(A, 1), Lo(B, 1)) /\ Eq(Hi(A, 1), Hi(B, 1))
\* p on the edge A and B share; p its end of greatest coordinate
OnShared(p, A, B) ==
    \/ SharesX(A, B) /\ OnMaxX(p, A)
    \/ SharesY(A, B) /\ OnMaxY(p, A)
MaxEnd(p, A, B) ==
    \/ SharesX(A, B) /\ OnMaxX(p, A) /\ Eq(p[2], Hi(A, 2))
    \/ SharesY(A, B) /\ OnMaxY(p, A) /\ Eq(p[1], Hi(A, 1))
RectSections ==
    { i \in 1..Len(venue.sections) : AxisRect(venue.sections[i].polygon) }
Holds(p, polygon) == point_in_polygon(p[1], p[2], polygon) = Ok(TRUE)
\* a click on the border two rectangular sections share is in exactly one of
\* the two and finds a section, but for the clicks that except
SharedBorder(except(_, _, _)) ==
    IsFindSection =>
        \A i \in RectSections, j \in RectSections :
            LET A == venue.sections[i].polygon
                B == venue.sections[j].polygon
            IN  (OnShared(args, A, B) /\ ~except(args, A, B)) =>
                    /\ Holds(args, A) # Holds(args, B)
                    /\ ret = Ok(0) => FALSE
NoPoint(p, A, B) == FALSE

\* C27: point_in_polygon is half-open on an axis-aligned rectangle: points
\* of the min-x and min-y edges that are not on the max-x or max-y edge are
\* inside, points of the max-x and max-y edges are outside; so a click on the
\* edge two rectangular sections share, other than the end of that edge with
\* the greatest coordinates, is in exactly one of the two and find_section
\* finds a section for it.
ThmC27 == HalfOpen /\ SharedBorder(MaxEnd)

\* a click in the middle of the border of sections C and R of SecsA finds R
WitC27 ==
    /\ IsFindSection
    /\ venue.sections = SecsA
    /\ args = Pt(13, 10)
    /\ ~Holds(args, SecCentre.polygon) /\ Holds(args, SecRight.polygon)
    /\ ret = Ok(3)

\* C27 as stated: every point of the shared edge, its ends included, is in
\* exactly one of the two sections and is found by find_section
CexC27 == HalfOpen /\ SharedBorder(NoPoint)


\* what get_section_info returns for the click of the map_to_camera_position
\* call in args
InfoOfClick == get_section_info(venue, args[1], args[2])

\* C28: for a click mapped without override dimensions, get_section_info
\* returns None exactly when map_to_camera_position takes the fallback
\* branch, and otherwise reports the id and the tier level of the section
\* whose tier and polygon map_to_camera_position used.
ThmC28 ==
    (IsMap /\ args[3] = None /\ args[4] = None /\ ~ret.raised) =>
        /\ ~InfoOfClick.raised
        /\ InfoOfClick.info = None <=> ret.local.branch = "fallback"
        /\ InfoOfClick.info # None =>
              /\ ret.local.branch = "section"
              /\ InfoOfClick.info[1].section_id = venue.sections[ret.local.section].id
              /\ InfoOfClick.info[1].tier = ret.local.tier_level
              /\ ret.local.tier_level = venue.sections[ret.local.section].tier

\* a click that two sections contain, in a venue that defines no tier: both
\* operations settle on the first, section C
WitC28 ==
    /\ IsMap /\ args[3] = None /\ args[4] = None /\ ~ret.raised
    /\ venue.tiers = TiersNone
    /\ Cardinality(Containing(ClickX, ClickY)) > 1
    /\ ret.local.branch = "section"
    /\ InfoOfClick.info # None
    /\ InfoOfClick.info[1].section_id = "C"


\* the clicks of the pixel grid: for each, the square of its distance from
\* (0.5, 0.45) and the tier estimate_position_from_click estimates for it
GridEstimates ==
    { <<Dist2(Pt(x, y)[1], Pt(x, y)[2], Q(1, 2), Q(9, 20)),
        estimate_position_from_click(Pt(x, y)[1], Pt(x, y)[2])[2]>> : x \in Pixels, y \in Pixels }
\* a tier estimated for a click at squared distance d2 agrees with the grid:
\* no click farther away has a lower tier, none nearer has a higher one
Monotone(d2, tier) ==
    \A e \in GridEstimates :
        /\ Ge(e[1], d2) => e[2] >= tier
        /\ Le(e[1], d2) => e[2] <= tier

\* C29: the tier the fallback estimates is one of 100, 200 and 400 and does
\* not decrease as the click's distance from (0.5, 0.45) grows; so the
\* fallback of map_to_camera_position never takes the catch-all default
\* (15, 45, 75) of its table.
ThmC29 ==
    /\ IsEstimate =>
          /\ ret.value[2] \in {100, 200, 400}
          /\ Monotone(Dist2(args[1], args[2], Q(1, 2), Q(9, 20)), ret.value[2])
    /\ (IsMap /\ ~ret.raised /\ ret.local.branch = "fallback") =>
          /\ ret.local.tier_level \in {100, 200, 400}
          /\ Monotone(Dist2(ret.norm_x, ret.norm_y, Q(1, 2), Q(9, 20)), ret.local.tier_level)
          /\ get_tier(venue, ret.local.tier_level) = None =>
                /\ <<ret.local.elevation, ret.local.min_distance, ret.local.max_distance>>
                       \in { <<I(5), I(30), I(55)>>, <<I(18), I(50), I(80)>>, <<I(38), I(70), I(100)>> }
                /\ <<ret.local.elevation, ret.local.min_distance, ret.local.max_distance>>
                       # <<I(15), I(45), I(75)>>

\* a fallback click in the middle band of a venue that defines the tiers 100
\* and 300 only: tier 200, from the table
WitC29 ==
    /\ IsMap /\ ~ret.raised /\ ret.local.branch = "fallback"
    /\ venue.tiers = TiersB
    /\ ret.local.tier_level = 200
    /\ <<ret.local.elevation, ret.local.min_distance, ret.local.max_distance>> = <<I(18), I(50), I(80)>>


IsRender == op \in {"render", "render_preview", "render_full"}
\* use_cache of the render call in args: the two wrappers pass True
UsesCache == IF op = "render" THEN args.use_cache ELSE TRUE
\* g is the point of the 0.5 m grid nearest to v, the even multiple of 0.5
\* when v is midway between two
NearestOfGrid(v, g) ==
    /\ Mul(g, I(2))[2] = 1
    /\ \/ Lt(AbsQ(Sub(v, g)), Q(1, 4))
       \/ Eq(AbsQ(Sub(v, g)), Q(1, 4)) /\ Mul(g, I(2))[1] % 2 = 0
\* the cache key k is of the venue and of the grid cell of the render call
\* of arguments a
OfCell(k, a) ==
    /\ k[1] = a.self.venue.id
    /\ NearestOfGrid(a.camera.x, k[2])
    /\ NearestOfGrid(a.camera.y, k[3])
    /\ NearestOfGrid(a.camera.z, k[4])
\* the non-empty images a cache directory holds for the venue and cell
StoredFor(files, a) ==
    { files[k][1] : k \in { k \in DOMAIN files : OfCell(k, a) /\ Truthy(files[k]) } }
\* a render call begins and ends within the step
RenderStep ==
    IsRender' =>
        /\ UsesCache' =>
              /\ \A image \in StoredFor(cache, args') :
                    ret'.value = image /\ ret'.sent = None /\ cache' = cache
              /\ StoredFor(cache, args') = {} =>
                    /\ ret'.sent # None
                    /\ ret'.value # "" => StoredFor(cache', args') = {ret'.value}
        /\ ~UsesCache' => cache' = cache /\ ret'.sent # None

=============================================================================
